---- MODULE Spec2Model ----
(***************************************************************************)
(* A state-machine model of calculator.py: the RPNCalculator pipeline      *)
(* (regex tokenizer, token validation, parenthesis check, shunting-yard    *)
(* conversion, postfix evaluation) and its three public entry points       *)
(* infix_to_rpn, evaluate_rpn and evaluate.                                *)
(*                                                                         *)
(* A Python str is a sequence of one-character strings; a token is such a  *)
(* sequence too.  The character written "sup2" stands for U+00B2           *)
(* (SUPERSCRIPT TWO), a character for which str.isdigit() is true although *)
(* it is no decimal digit: the regex class \d does not match it and        *)
(* float() rejects it.  A Python float is modelled by the exact rational   *)
(* <<numerator, denominator>> in lowest terms with a positive denominator; *)
(* rounding, infinities and NaN are not modelled.                          *)
(***************************************************************************)
EXTENDS Integers, Sequences, FiniteSets, TLC

VARIABLES
    pc,          \* position of the running call
    api,         \* the entry point the caller invoked
    expression,  \* evaluate / infix_to_rpn: the argument
    tokens,      \* infix_to_rpn: tokens
    ti,          \* infix_to_rpn: index of the token the for loop is at
    output,      \* infix_to_rpn: output
    operators,   \* infix_to_rpn: operators
    rpn,         \* evaluate_rpn: the argument tokens
    ri,          \* evaluate_rpn: index of the token the for loop is at
    stack,       \* evaluate_rpn: stack
    status,      \* "idle", "running", "returned" or "raised"
    error,       \* class of the raised exception, "none" otherwise
    message,     \* text of the raised exception, "" otherwise
    retval,      \* number returned by evaluate_rpn / evaluate, NoValue otherwise
    opPushes,    \* infix_to_rpn: operators.append calls made by the call
    opPops,      \* infix_to_rpn: operators.pop calls made by the call
    stackOps,    \* evaluate_rpn: stack.append and stack.pop calls made by the call
    memo         \* what the caller keeps of an earlier call, NoMemo otherwise

vars == <<pc, api, expression, tokens, ti, output, operators, rpn, ri, stack,
          status, error, message, retval, opPushes, opPops, stackOps, memo>>

----------------------------------------------------------------------------
(* Bounds of the explored inputs.                                          *)

MaxExprLen == 5
MaxLexLen == 3
MaxRpnLen == 4
MaxBadRpnLen == 3
MaxRepeatLen == 2

----------------------------------------------------------------------------
(* Characters and tokens.                                                  *)

DecimalDigits == {"0", "1", "2", "3", "4", "5", "6", "7", "8", "9"}

\* characters c with c.isdigit() true
IsdigitChars == DecimalDigits \cup {"sup2"}

DigitValue(c) ==
    CASE c = "0" -> 0 [] c = "1" -> 1 [] c = "2" -> 2 [] c = "3" -> 3
      [] c = "4" -> 4 [] c = "5" -> 5 [] c = "6" -> 6 [] c = "7" -> 7
      [] c = "8" -> 8 [] c = "9" -> 9

LeftParen == <<"(">>
RightParen == <<")">>

\* the keys of the OPERATORS table
OPERATORS == {<<"+">>, <<"-">>, <<"*">>, <<"/">>}

\* a table without precedence levels
PRIORITY_flat == [t \in OPERATORS |-> 1]

PRIORITY == [t \in OPERATORS |-> IF t \in {<<"+">>, <<"-">>} THEN 1 ELSE 2]

Top(s) == s[Len(s)]
Pop(s) == SubSeq(s, 1, Len(s) - 1)

----------------------------------------------------------------------------
(* Numbers.                                                                *)

NoValue == <<>>

Abs(x) == IF x < 0 THEN -x ELSE x

RECURSIVE Gcd(_, _)
Gcd(a, b) == IF b = 0 THEN a ELSE Gcd(b, a % b)

\* the rational n/d (d # 0) in lowest terms, denominator positive
Rat(n, d) ==
    LET g == Gcd(Abs(n), Abs(d))
        s == IF d < 0 THEN -1 ELSE 1
    IN  <<(s * n) \div g, (s * d) \div g>>

IsZero(x) == x[1] = 0

\* OPERATORS[token](a, b) for b such that no ZeroDivisionError is raised
Apply(token, a, b) ==
    CASE token = <<"+">> -> Rat(a[1] * b[2] + b[1] * a[2], a[2] * b[2])
      [] token = <<"-">> -> Rat(a[1] * b[2] - b[1] * a[2], a[2] * b[2])
      [] token = <<"*">> -> Rat(a[1] * b[1], a[2] * b[2])
      [] token = <<"/">> -> Rat(a[1] * b[2], a[2] * b[1])

\* a test of the wrong operand
RaisesZeroDivision_left(token, a, b) == token = <<"/">> /\ IsZero(a)

\* operator.truediv raises ZeroDivisionError
RaisesZeroDivision(token, a, b) == token = <<"/">> /\ IsZero(b)

----------------------------------------------------------------------------
(* str methods used on tokens.                                             *)

RECURSIVE IndexOfDot(_, _)
IndexOfDot(s, p) ==
    IF p > Len(s) THEN 0 ELSE IF s[p] = "." THEN p ELSE IndexOfDot(s, p + 1)

\* s.replace(".", "", 1)
ReplaceFirstDot(s) ==
    LET k == IndexOfDot(s, 1)
    IN  IF k = 0 THEN s ELSE SubSeq(s, 1, k - 1) \o SubSeq(s, k + 1, Len(s))

\* s.isdigit()
Isdigit(s) == Len(s) > 0 /\ \A k \in 1..Len(s) : s[k] \in IsdigitChars

\* token.replace(".", "", 1).isdigit()
IsNumberToken(token) == Isdigit(ReplaceFirstDot(token))

RECURSIVE DigitsValue(_)
DigitsValue(s) ==
    IF s = <<>> THEN 0 ELSE 10 * DigitsValue(Pop(s)) + DigitValue(Top(s))

RECURSIVE Pow10(_)
Pow10(k) == IF k = 0 THEN 1 ELSE 10 * Pow10(k - 1)

\* float(token) raises ValueError, for a token with IsNumberToken(token)
FloatRaises(token) == \E k \in 1..Len(token) : token[k] \notin DecimalDigits \cup {"."}

\* float(token), for a token with IsNumberToken(token) and ~FloatRaises(token)
Float(token) ==
    LET k == IndexOfDot(token, 1)
        frac == IF k = 0 THEN 0 ELSE Len(token) - k
    IN  Rat(DigitsValue(ReplaceFirstDot(token)), Pow10(frac))

----------------------------------------------------------------------------
(* _tokenize: re.findall(r"\d+\.?\d*|[()+\-*/]", expression).              *)

RECURSIVE ScanDigits(_, _)
\* the index after the longest run of \d that starts at p
ScanDigits(s, p) ==
    IF p <= Len(s) /\ s[p] \in DecimalDigits THEN ScanDigits(s, p + 1) ELSE p

\* the index after the match of the pattern at p; p when there is none
MatchEnd(s, p) ==
    IF s[p] \in DecimalDigits
    THEN LET q == ScanDigits(s, p)
             r == IF q <= Len(s) /\ s[q] = "." THEN q + 1 ELSE q
         IN  ScanDigits(s, r)
    ELSE IF s[p] \in {"(", ")", "+", "-", "*", "/"} THEN p + 1 ELSE p

RECURSIVE FindAll(_, _)
FindAll(s, p) ==
    IF p > Len(s) THEN <<>>
    ELSE LET e == MatchEnd(s, p)
         IN  IF e = p THEN FindAll(s, p + 1)
             ELSE <<SubSeq(s, p, e - 1)>> \o FindAll(s, e)

Tokenize(s) == FindAll(s, 1)

----------------------------------------------------------------------------
(* _validate_tokens and _check_parentheses.                                *)

ValidToken(token) ==
    \/ IsNumberToken(token)
    \/ token \in OPERATORS
    \/ token \in {LeftParen, RightParen}

RECURSIVE FirstInvalid(_, _)
\* index of the first token _validate_tokens raises for, 0 when there is none
FirstInvalid(ts, k) ==
    IF k > Len(ts) THEN 0
    ELSE IF ValidToken(ts[k]) THEN FirstInvalid(ts, k + 1) ELSE k

RECURSIVE ParenScan(_, _, _)
\* TRUE when _check_parentheses returns, FALSE when it raises
ParenScan(ts, k, st) ==
    IF k > Len(ts) THEN st = <<>>
    ELSE IF ts[k] = LeftParen THEN ParenScan(ts, k + 1, Append(st, ts[k]))
    ELSE IF ts[k] = RightParen
         THEN IF st = <<>> THEN FALSE ELSE ParenScan(ts, k + 1, Pop(st))
    ELSE ParenScan(ts, k + 1, st)

\* a check that only compares the numbers of "(" and ")"
CheckParentheses_count_only(ts) ==
    Cardinality({k \in 1..Len(ts) : ts[k] = LeftParen})
        = Cardinality({k \in 1..Len(ts) : ts[k] = RightParen})

CheckParentheses(ts) == ParenScan(ts, 1, <<>>)

----------------------------------------------------------------------------
(* Inputs.                                                                 *)

SeqsUpTo(S, n) == UNION {[1..k -> S] : k \in 0..n}

\* expressions without grouping: every operator, a zero and a non-zero digit
FlatAlphabet == {"0", "2", "+", "-", "*", "/"}

\* expressions with grouping
ParenAlphabet == {"0", "2", "-", "/", "(", ")"}

\* lexical cases: a decimal point, white space, a letter, U+00B2
LexAlphabet == {"2", ".", " ", "a", "sup2", "+", "("}

\* the expressions of test_calculator.py
TestExpressions ==
    { <<"3", " ", "+", " ", "4">>,
      <<"3", " ", "+", " ", "4", " ", "*", " ", "2">>,
      <<"(", "3", " ", "+", " ", "4", ")", " ", "*", " ", "2">>,
      <<"3", " ", "+", " ", "4", " ", "*", " ", "2", " ", "/", " ", "(", "1", " ", "-", " ", "5", ")">>,
      <<"2", " ", "+", " ", "3", " ", "*", " ", "4", " ", "-", " ", "5">>,
      <<"(", "1", " ", "+", " ", "2", ")", " ", "*", " ", "(", "3", " ", "+", " ", "4", ")">>,
      <<"1", "0", " ", "-", " ", "(", "2", " ", "+", " ", "3", ")", " ", "*", " ", "4">>,
      <<"2", ".", "5", " ", "+", " ", "3", ".", "7", " ", "*", " ", "4">>,
      <<"1", "0", " ", "/", " ", "2">>,
      <<"2", ".", "5", " ", "*", " ", "3">>,
      <<"3", " ", "+", " ", "4", "a">>,
      <<"(", "3", " ", "+", " ", "4">>,
      <<"3", " ", "+", " ", "4", ")">>,
      <<"3", " ", "+">>,
      <<"+", " ", "3">>,
      <<"3", " ", "3", " ", "+">>,
      <<"3", " ", "/", " ", "0">> }

Expressions ==
    SeqsUpTo(FlatAlphabet, MaxExprLen) \cup SeqsUpTo(ParenAlphabet, MaxExprLen)
        \cup SeqsUpTo(LexAlphabet, MaxLexLen) \cup TestExpressions

\* token lists of numerals and operators
RpnTokens == {<<"0">>, <<"2">>, <<"+">>, <<"-">>, <<"*">>, <<"/">>}

\* token lists with tokens that are neither: a parenthesis, a signed literal,
\* the empty string, a numeral with two dots, U+00B2, a bare dot; and the
\* numerals ".5" and "2." that float() accepts
BadRpnTokens ==
    { <<"2">>, <<"+">>, <<"(">>, <<")">>, <<"-", "2">>, <<>>,
      <<"2", ".", "2", ".", "2">>, <<"sup2">>, <<".">>, <<".", "5">>, <<"2", ".">> }

\* the postfix sequences of test_calculator.py
TestRpn ==
    { <<<<"3">>, <<"4">>, <<"+">>>>,
      <<<<"3">>, <<"4">>, <<"2">>, <<"*">>, <<"+">>>>,
      <<<<"3">>, <<"4">>, <<"+">>, <<"2">>, <<"*">>>>,
      <<<<"3">>, <<"4">>, <<"2">>, <<"*">>, <<"1">>, <<"5">>, <<"-">>, <<"/">>, <<"+">>>> }

RpnInputs ==
    SeqsUpTo(RpnTokens, MaxRpnLen) \cup SeqsUpTo(BadRpnTokens, MaxBadRpnLen)
        \cup TestRpn

\* the arguments of the calls a caller makes one after another
RepeatAlphabet == {"0", "2", "/", "("}

RepeatExpressions == SeqsUpTo(RepeatAlphabet, MaxRepeatLen) \cup TestExpressions

RepeatRpnTokens == {<<"2">>, <<"/">>, <<"(">>, <<"sup2">>}

RepeatRpnInputs == SeqsUpTo(RepeatRpnTokens, MaxRepeatLen) \cup TestRpn

----------------------------------------------------------------------------
(* The calculator.                                                         *)

\* the caller holds no earlier outcome
NoMemo == [api |-> "none"]

Init ==
    /\ pc = "idle"
    /\ api = "none"
    /\ expression = <<>>
    /\ tokens = <<>>
    /\ ti = 0
    /\ output = <<>>
    /\ operators = <<>>
    /\ rpn = <<>>
    /\ ri = 0
    /\ stack = <<>>
    /\ status = "idle"
    /\ error = "none"
    /\ message = ""
    /\ retval = NoValue
    /\ opPushes = 0
    /\ opPops = 0
    /\ stackOps = 0
    /\ memo = NoMemo

\* raise cls(msg): the exception leaves the entry point
Raise(cls, msg) ==
    /\ pc' = "done"
    /\ status' = "raised"
    /\ error' = cls
    /\ message' = msg
    /\ retval' = NoValue

NoOutcome == UNCHANGED <<status, error, message, retval>>

\* no operators.append, operators.pop, stack.append or stack.pop is made
NoStackWork == UNCHANGED <<opPushes, opPops, stackOps>>

\* calc.evaluate(e)
StartEvaluate(e) ==
    /\ pc = "idle"
    /\ expression' = e
    /\ api' = "evaluate"
    /\ pc' = "tokenize"
    /\ status' = "running"
    /\ UNCHANGED <<tokens, ti, output, operators, rpn, ri, stack, error, message, retval, memo>>
    /\ NoStackWork

CallEvaluate ==
    /\ pc = "idle"
    /\ \E e \in Expressions : StartEvaluate(e)

\* calc.infix_to_rpn(e)
StartInfixToRpn(e) ==
    /\ pc = "idle"
    /\ expression' = e
    /\ api' = "infix_to_rpn"
    /\ pc' = "tokenize"
    /\ status' = "running"
    /\ UNCHANGED <<tokens, ti, output, operators, rpn, ri, stack, error, message, retval, memo>>
    /\ NoStackWork

CallInfixToRpn ==
    /\ pc = "idle"
    /\ \E e \in Expressions : StartInfixToRpn(e)

\* calc.evaluate_rpn(ts)
StartEvaluateRpn(ts) ==
    /\ pc = "idle"
    /\ rpn' = ts
    /\ api' = "evaluate_rpn"
    /\ pc' = "eval"
    /\ ri' = 1
    /\ stack' = <<>>
    /\ status' = "running"
    /\ UNCHANGED <<expression, tokens, ti, output, operators, error, message, retval, memo>>
    /\ NoStackWork

CallEvaluateRpn ==
    /\ pc = "idle"
    /\ \E ts \in RpnInputs : StartEvaluateRpn(ts)

\* tokens = self._tokenize(expression)
TokenizeStep ==
    /\ pc = "tokenize"
    /\ tokens' = Tokenize(expression)
    /\ pc' = "validate"
    /\ NoOutcome
    /\ UNCHANGED <<api, expression, ti, output, operators, rpn, ri, stack, memo>>
    /\ NoStackWork

\* self._validate_tokens(tokens)
ValidateStep ==
    /\ pc = "validate"
    /\ IF FirstInvalid(tokens, 1) = 0
       THEN pc' = "check" /\ NoOutcome
       ELSE Raise("InvalidTokenError", "Invalid token")
    /\ UNCHANGED <<api, expression, tokens, ti, output, operators, rpn, ri, stack, memo>>
    /\ NoStackWork

\* self._check_parentheses(tokens); output = []; operators = []
CheckStep ==
    /\ pc = "check"
    /\ IF CheckParentheses(tokens)
       THEN /\ pc' = "convert"
            /\ ti' = 1
            /\ NoOutcome
       ELSE /\ Raise("MismatchedParenthesesError", "Mismatched parentheses")
            /\ UNCHANGED ti
    /\ UNCHANGED <<api, expression, tokens, output, operators, rpn, ri, stack, memo>>
    /\ NoStackWork

RECURSIVE PopHigher_strict(_, _, _)
\* the loop with > for >=: equal precedence no longer pops
PopHigher_strict(ops, out, token) ==
    IF ops # <<>> /\ Top(ops) # LeftParen /\ PRIORITY[Top(ops)] > PRIORITY[token]
    THEN PopHigher_strict(Pop(ops), Append(out, Top(ops)), token)
    ELSE [ops |-> ops, out |-> out]

RECURSIVE PopHigher(_, _, _)
\* the while loop of the operator branch
PopHigher(ops, out, token) ==
    IF ops # <<>> /\ Top(ops) # LeftParen /\ PRIORITY[Top(ops)] >= PRIORITY[token]
    THEN PopHigher(Pop(ops), Append(out, Top(ops)), token)
    ELSE [ops |-> ops, out |-> out]

RECURSIVE PopToParen_discard(_, _)
\* the loop popping the operators without appending them to the output
PopToParen_discard(ops, out) ==
    IF ops # <<>> /\ Top(ops) # LeftParen
    THEN PopToParen_discard(Pop(ops), out)
    ELSE [ops |-> ops, out |-> out]

RECURSIVE PopToParen(_, _)
\* the while loop of the ")" branch
PopToParen(ops, out) ==
    IF ops # <<>> /\ Top(ops) # LeftParen
    THEN PopToParen(Pop(ops), Append(out, Top(ops)))
    ELSE [ops |-> ops, out |-> out]

RECURSIVE Drain(_, _)
\* the final while loop; ok is FALSE when it raises
Drain(ops, out) ==
    IF ops = <<>> THEN [ok |-> TRUE, ops |-> ops, out |-> out]
    ELSE IF Top(ops) \in {LeftParen, RightParen}
         THEN [ok |-> FALSE, ops |-> ops, out |-> out]
    ELSE Drain(Pop(ops), Append(out, Top(ops)))

ConvertFrame == UNCHANGED <<api, expression, tokens, rpn, ri, stack, stackOps, memo>>

\* the numeral branch on a loop that does not move to the next token
ConvertNumber_stalls ==
    /\ pc = "convert"
    /\ ti <= Len(tokens)
    /\ IsNumberToken(tokens[ti])
    /\ output' = Append(output, tokens[ti])
    /\ ti' = ti
    /\ NoOutcome
    /\ UNCHANGED <<pc, operators, opPushes, opPops>>
    /\ ConvertFrame

\* for token in tokens: the numeral branch
ConvertNumber ==
    /\ pc = "convert"
    /\ ti <= Len(tokens)
    /\ IsNumberToken(tokens[ti])
    /\ output' = Append(output, tokens[ti])
    /\ ti' = ti + 1
    /\ NoOutcome
    /\ UNCHANGED <<pc, operators, opPushes, opPops>>
    /\ ConvertFrame

\* for token in tokens: the operator branch
ConvertOperator ==
    /\ pc = "convert"
    /\ ti <= Len(tokens)
    /\ ~IsNumberToken(tokens[ti])
    /\ tokens[ti] \in OPERATORS
    /\ LET r == PopHigher(operators, output, tokens[ti])
       IN  /\ output' = r.out
           /\ operators' = Append(r.ops, tokens[ti])
           /\ opPops' = opPops + (Len(operators) - Len(r.ops))
           /\ opPushes' = opPushes + 1
    /\ ti' = ti + 1
    /\ NoOutcome
    /\ UNCHANGED pc
    /\ ConvertFrame

\* for token in tokens: the "(" branch
ConvertLeftParen ==
    /\ pc = "convert"
    /\ ti <= Len(tokens)
    /\ ~IsNumberToken(tokens[ti])
    /\ tokens[ti] \notin OPERATORS
    /\ tokens[ti] = LeftParen
    /\ operators' = Append(operators, tokens[ti])
    /\ opPushes' = opPushes + 1
    /\ ti' = ti + 1
    /\ NoOutcome
    /\ UNCHANGED <<pc, output, opPops>>
    /\ ConvertFrame

\* for token in tokens: the ")" branch
ConvertRightParen ==
    /\ pc = "convert"
    /\ ti <= Len(tokens)
    /\ ~IsNumberToken(tokens[ti])
    /\ tokens[ti] \notin OPERATORS
    /\ tokens[ti] # LeftParen
    /\ tokens[ti] = RightParen
    /\ LET r == PopToParen(operators, output)
       IN  /\ output' = r.out
           /\ IF r.ops = <<>>
              THEN /\ operators' = r.ops
                   /\ opPops' = opPops + (Len(operators) - Len(r.ops))
                   /\ Raise("MismatchedParenthesesError", "Mismatched parentheses")
                   /\ UNCHANGED ti
              ELSE /\ operators' = Pop(r.ops)
                   /\ opPops' = opPops + (Len(operators) - Len(r.ops)) + 1
                   /\ ti' = ti + 1
                   /\ NoOutcome
                   /\ UNCHANGED pc
    /\ UNCHANGED opPushes
    /\ ConvertFrame

\* evaluate passing the infix tokens, not the returned list, to evaluate_rpn
ConvertFinish_passes_tokens ==
    /\ pc = "convert"
    /\ ti > Len(tokens)
    /\ LET r == Drain(operators, output)
       IN  /\ output' = r.out
           /\ operators' = r.ops
           /\ opPops' = opPops + (Len(operators) - Len(r.ops))
           /\ IF ~r.ok
              THEN /\ Raise("MismatchedParenthesesError", "Mismatched parentheses")
                   /\ UNCHANGED <<rpn, ri>>
              ELSE IF api = "infix_to_rpn"
              THEN /\ pc' = "done"
                   /\ status' = "returned"
                   /\ UNCHANGED <<rpn, ri, error, message, retval>>
              ELSE /\ pc' = "eval"
                   /\ rpn' = tokens
                   /\ ri' = 1
                   /\ NoOutcome
    /\ UNCHANGED <<api, expression, tokens, ti, stack, opPushes, stackOps, memo>>

\* the loop is over: drain the operators and return output; evaluate passes
\* the returned list to evaluate_rpn
ConvertFinish ==
    /\ pc = "convert"
    /\ ti > Len(tokens)
    /\ LET r == Drain(operators, output)
       IN  /\ output' = r.out
           /\ operators' = r.ops
           /\ opPops' = opPops + (Len(operators) - Len(r.ops))
           /\ IF ~r.ok
              THEN /\ Raise("MismatchedParenthesesError", "Mismatched parentheses")
                   /\ UNCHANGED <<rpn, ri>>
              ELSE IF api = "infix_to_rpn"
              THEN /\ pc' = "done"
                   /\ status' = "returned"
                   /\ UNCHANGED <<rpn, ri, error, message, retval>>
              ELSE /\ pc' = "eval"
                   /\ rpn' = r.out
                   /\ ri' = 1
                   /\ NoOutcome
    /\ UNCHANGED <<api, expression, tokens, ti, stack, opPushes, stackOps, memo>>

EvalFrame ==
    UNCHANGED <<api, expression, tokens, ti, output, operators, rpn, opPushes, opPops, memo>>

\* for token in tokens: the numeral branch
EvalNumber ==
    /\ pc = "eval"
    /\ ri <= Len(rpn)
    /\ IsNumberToken(rpn[ri])
    /\ IF FloatRaises(rpn[ri])
       THEN /\ Raise("ValueError", "could not convert string to float")
            /\ UNCHANGED <<stack, ri, stackOps>>
       ELSE /\ stack' = Append(stack, Float(rpn[ri]))
            /\ stackOps' = stackOps + 1
            /\ ri' = ri + 1
            /\ NoOutcome
            /\ UNCHANGED pc
    /\ EvalFrame

\* the operator branch with the operands popped in the other order
EvalOperator_swapped ==
    /\ pc = "eval"
    /\ ri <= Len(rpn)
    /\ ~IsNumberToken(rpn[ri])
    /\ rpn[ri] \in OPERATORS
    /\ IF Len(stack) < 2
       THEN /\ Raise("RPNSyntaxError", "Not enough operands for operator")
            /\ UNCHANGED <<stack, ri, stackOps>>
       ELSE LET a == Top(stack)
                b == Top(Pop(stack))
            IN  IF RaisesZeroDivision(rpn[ri], a, b)
                THEN /\ Raise("RPNSyntaxError", "Division by zero")
                     /\ stack' = Pop(Pop(stack))
                     /\ stackOps' = stackOps + 2
                     /\ UNCHANGED ri
                ELSE /\ stack' = Append(Pop(Pop(stack)), Apply(rpn[ri], a, b))
                     /\ stackOps' = stackOps + 3
                     /\ ri' = ri + 1
                     /\ NoOutcome
                     /\ UNCHANGED pc
    /\ EvalFrame

\* the operator branch with a missing left operand taken to be 0
EvalOperator_default_operand ==
    /\ pc = "eval"
    /\ ri <= Len(rpn)
    /\ ~IsNumberToken(rpn[ri])
    /\ rpn[ri] \in OPERATORS
    /\ IF Len(stack) < 1
       THEN /\ Raise("RPNSyntaxError", "Not enough operands for operator")
            /\ UNCHANGED <<stack, ri, stackOps>>
       ELSE LET b == Top(stack)
                a == IF Len(stack) < 2 THEN <<0, 1>> ELSE Top(Pop(stack))
                rest == IF Len(stack) < 2 THEN <<>> ELSE Pop(Pop(stack))
            IN  IF RaisesZeroDivision(rpn[ri], a, b)
                THEN /\ Raise("RPNSyntaxError", "Division by zero")
                     /\ stack' = rest
                     /\ stackOps' = stackOps + 2
                     /\ UNCHANGED ri
                ELSE /\ stack' = Append(rest, Apply(rpn[ri], a, b))
                     /\ stackOps' = stackOps + 3
                     /\ ri' = ri + 1
                     /\ NoOutcome
                     /\ UNCHANGED pc
    /\ EvalFrame

\* for token in tokens: the operator branch
EvalOperator ==
    /\ pc = "eval"
    /\ ri <= Len(rpn)
    /\ ~IsNumberToken(rpn[ri])
    /\ rpn[ri] \in OPERATORS
    /\ IF Len(stack) < 2
       THEN /\ Raise("RPNSyntaxError", "Not enough operands for operator")
            /\ UNCHANGED <<stack, ri, stackOps>>
       ELSE LET b == Top(stack)
                a == Top(Pop(stack))
            IN  IF RaisesZeroDivision(rpn[ri], a, b)
                THEN /\ Raise("RPNSyntaxError", "Division by zero")
                     /\ stack' = Pop(Pop(stack))
                     /\ stackOps' = stackOps + 2
                     /\ UNCHANGED ri
                ELSE /\ stack' = Append(Pop(Pop(stack)), Apply(rpn[ri], a, b))
                     /\ stackOps' = stackOps + 3
                     /\ ri' = ri + 1
                     /\ NoOutcome
                     /\ UNCHANGED pc
    /\ EvalFrame

\* for token in tokens: the else branch
EvalInvalid ==
    /\ pc = "eval"
    /\ ri <= Len(rpn)
    /\ ~IsNumberToken(rpn[ri])
    /\ rpn[ri] \notin OPERATORS
    /\ Raise("InvalidTokenError", "Invalid token in RPN")
    /\ UNCHANGED <<stack, ri, stackOps>>
    /\ EvalFrame

\* a length check that only refuses the empty stack
EvalFinish_nonempty ==
    /\ pc = "eval"
    /\ ri > Len(rpn)
    /\ IF Len(stack) < 1
       THEN Raise("RPNSyntaxError", "Malformed expression")
       ELSE /\ pc' = "done"
            /\ status' = "returned"
            /\ retval' = stack[1]
            /\ UNCHANGED <<error, message>>
    /\ UNCHANGED <<stack, ri, stackOps>>
    /\ EvalFrame

\* the loop is over: the length check and return stack[0]
EvalFinish ==
    /\ pc = "eval"
    /\ ri > Len(rpn)
    /\ IF Len(stack) # 1
       THEN Raise("RPNSyntaxError", "Malformed expression")
       ELSE /\ pc' = "done"
            /\ status' = "returned"
            /\ retval' = stack[1]
            /\ UNCHANGED <<error, message>>
    /\ UNCHANGED <<stack, ri, stackOps>>
    /\ EvalFrame

\* the locals of the call, output apart, are discarded
Discard_keeps_output ==
    /\ pc' = "idle"
    /\ api' = "none"
    /\ expression' = <<>>
    /\ tokens' = <<>>
    /\ ti' = 0
    /\ output' = output
    /\ operators' = <<>>
    /\ rpn' = <<>>
    /\ ri' = 0
    /\ stack' = <<>>
    /\ status' = "idle"
    /\ error' = "none"
    /\ message' = ""
    /\ retval' = NoValue
    /\ opPushes' = 0
    /\ opPops' = 0
    /\ stackOps' = 0

\* the call's locals are discarded
Discard ==
    /\ pc' = "idle"
    /\ api' = "none"
    /\ expression' = <<>>
    /\ tokens' = <<>>
    /\ ti' = 0
    /\ output' = <<>>
    /\ operators' = <<>>
    /\ rpn' = <<>>
    /\ ri' = 0
    /\ stack' = <<>>
    /\ status' = "idle"
    /\ error' = "none"
    /\ message' = ""
    /\ retval' = NoValue
    /\ opPushes' = 0
    /\ opPops' = 0
    /\ stackOps' = 0

\* the caller has the outcome
Return ==
    /\ pc = "done"
    /\ Discard
    /\ UNCHANGED memo

Next ==
    \/ CallEvaluate
    \/ CallInfixToRpn
    \/ CallEvaluateRpn
    \/ TokenizeStep
    \/ ValidateStep
    \/ CheckStep
    \/ ConvertNumber
    \/ ConvertOperator
    \/ ConvertLeftParen
    \/ ConvertRightParen
    \/ ConvertFinish
    \/ EvalNumber
    \/ EvalOperator
    \/ EvalInvalid
    \/ EvalFinish
    \/ Return

Spec == Init /\ [][Next]_vars

----------------------------------------------------------------------------
(* A caller that keeps the outcome of one infix_to_rpn call, as the        *)
(* command loop does with rpn_token_list and result_val, and goes on       *)
(* calling the same calculator.                                            *)

AgainEvaluate ==
    /\ pc = "idle"
    /\ \E e \in RepeatExpressions : StartEvaluate(e)

AgainInfixToRpn ==
    /\ pc = "idle"
    /\ \E e \in RepeatExpressions : StartInfixToRpn(e)

AgainEvaluateRpn ==
    /\ pc = "idle"
    /\ \E ts \in RepeatRpnInputs : StartEvaluateRpn(ts)

\* result_val = calc.evaluate_rpn(rpn_token_list)
EvaluateRpnOfResult ==
    /\ pc = "idle"
    /\ memo.api = "infix_to_rpn"
    /\ memo.status = "returned"
    /\ StartEvaluateRpn(memo.output)

\* rpn_token_list = calc.infix_to_rpn(expr): the caller keeps the outcome
RememberInfixToRpn ==
    /\ pc = "done"
    /\ api = "infix_to_rpn"
    /\ memo = NoMemo
    /\ memo' = [api |-> "infix_to_rpn", expression |-> expression,
                status |-> status, error |-> error,
                output |-> IF status = "returned" THEN output ELSE <<>>,
                applied |-> FALSE, rstatus |-> "none", rerror |-> "none",
                retval |-> NoValue]
    /\ Discard

\* the caller keeps the outcome of evaluate_rpn on the list it kept
RememberEvaluateRpn ==
    /\ pc = "done"
    /\ api = "evaluate_rpn"
    /\ memo.api = "infix_to_rpn"
    /\ memo.status = "returned"
    /\ rpn = memo.output
    /\ memo' = [memo EXCEPT !.applied = TRUE, !.rstatus = status,
                            !.rerror = error, !.retval = retval]
    /\ Discard

NextRepeat ==
    \/ AgainEvaluate
    \/ AgainInfixToRpn
    \/ AgainEvaluateRpn
    \/ EvaluateRpnOfResult
    \/ TokenizeStep
    \/ ValidateStep
    \/ CheckStep
    \/ ConvertNumber
    \/ ConvertOperator
    \/ ConvertLeftParen
    \/ ConvertRightParen
    \/ ConvertFinish
    \/ EvalNumber
    \/ EvalOperator
    \/ EvalInvalid
    \/ EvalFinish
    \/ Return
    \/ RememberInfixToRpn
    \/ RememberEvaluateRpn

SpecRepeat == Init /\ [][NextRepeat]_vars

----------------------------------------------------------------------------
(* The meaning of an infix expression, stated without an operator stack:   *)
(* the grammar                                                             *)
(*     Expr   ::= Term   { ("+" | "-") Term }                              *)
(*     Term   ::= Factor { ("*" | "/") Factor }                            *)
(*     Factor ::= numeral | "(" Expr ")"                                   *)
(* with each { } loop grouping to the left.  A parse yields the value and  *)
(* the post-order of the parse tree.                                       *)

Whitespace == {" "}
SymbolChars == {"+", "-", "*", "/", "(", ")"}

\* the value of an expression in which a divisor is zero
Undefined == <<0, 0>>

RECURSIVE RunEnd(_, _, _)
\* the index after the longest run of characters of S that starts at p
RunEnd(s, p, S) == IF p <= Len(s) /\ s[p] \in S THEN RunEnd(s, p + 1, S) ELSE p

DotCount(s) == Cardinality({k \in 1..Len(s) : s[k] = "."})

RECURSIVE RefLex(_, _)
\* the lexemes of s from p on: numerals (digits, then at most one "." and
\* digits) and symbols, white space between them; ok is FALSE when s holds
\* anything else
RefLex(s, p) ==
    IF p > Len(s) THEN [ok |-> TRUE, toks |-> <<>>]
    ELSE IF s[p] \in Whitespace THEN RefLex(s, p + 1)
    ELSE IF s[p] \in SymbolChars
    THEN LET r == RefLex(s, p + 1)
         IN  [ok |-> r.ok, toks |-> <<<<s[p]>>>> \o r.toks]
    ELSE IF s[p] \in DecimalDigits
    THEN LET e == RunEnd(s, p, DecimalDigits \cup {"."})
             r == RefLex(s, e)
         IN  [ok |-> r.ok /\ DotCount(SubSeq(s, p, e - 1)) <= 1,
              toks |-> <<SubSeq(s, p, e - 1)>> \o r.toks]
    ELSE [ok |-> FALSE, toks |-> <<>>]

RefNumeral(token) ==
    /\ token # <<>>
    /\ token[1] \in DecimalDigits
    /\ \A k \in 1..Len(token) : token[k] \in DecimalDigits \cup {"."}
    /\ DotCount(token) <= 1

RefApply(op, a, b) ==
    IF a = Undefined \/ b = Undefined \/ (op = <<"/">> /\ b[1] = 0)
    THEN Undefined
    ELSE Apply(op, a, b)

ParseFail == [ok |-> FALSE, pos |-> 0, val |-> Undefined, post |-> <<>>]

RECURSIVE ParseExpr(_, _)
RECURSIVE ParseExprRest(_, _)
RECURSIVE ParseTerm(_, _)
RECURSIVE ParseTermRest(_, _)
RECURSIVE ParseFactor(_, _)

ParseFactor(ts, p) ==
    IF p > Len(ts) THEN ParseFail
    ELSE IF RefNumeral(ts[p])
    THEN [ok |-> TRUE, pos |-> p + 1, val |-> Float(ts[p]), post |-> <<ts[p]>>]
    ELSE IF ts[p] = <<"(">>
    THEN LET e == ParseExpr(ts, p + 1)
         IN  IF e.ok /\ e.pos <= Len(ts) /\ ts[e.pos] = <<")">>
             THEN [e EXCEPT !.pos = e.pos + 1]
             ELSE ParseFail
    ELSE ParseFail

ParseTermRest(ts, acc) ==
    IF acc.pos <= Len(ts) /\ ts[acc.pos] \in {<<"*">>, <<"/">>}
    THEN LET f == ParseFactor(ts, acc.pos + 1)
         IN  IF f.ok
             THEN ParseTermRest(ts,
                      [ok |-> TRUE, pos |-> f.pos,
                       val |-> RefApply(ts[acc.pos], acc.val, f.val),
                       post |-> acc.post \o f.post \o <<ts[acc.pos]>>])
             ELSE ParseFail
    ELSE acc

ParseTerm(ts, p) ==
    LET f == ParseFactor(ts, p) IN IF f.ok THEN ParseTermRest(ts, f) ELSE ParseFail

ParseExprRest(ts, acc) ==
    IF acc.pos <= Len(ts) /\ ts[acc.pos] \in {<<"+">>, <<"-">>}
    THEN LET t == ParseTerm(ts, acc.pos + 1)
         IN  IF t.ok
             THEN ParseExprRest(ts,
                      [ok |-> TRUE, pos |-> t.pos,
                       val |-> RefApply(ts[acc.pos], acc.val, t.val),
                       post |-> acc.post \o t.post \o <<ts[acc.pos]>>])
             ELSE ParseFail
    ELSE acc

ParseExpr(ts, p) ==
    LET t == ParseTerm(ts, p) IN IF t.ok THEN ParseExprRest(ts, t) ELSE ParseFail

\* the parse of the whole string s
RefParse(s) ==
    LET lx == RefLex(s, 1)
        e == ParseExpr(lx.toks, 1)
    IN  IF lx.ok /\ e.ok /\ e.pos = Len(lx.toks) + 1 THEN e ELSE ParseFail

\* s is a well-formed infix expression
WellFormed(s) == RefParse(s).ok

\* s holds only numerals, symbols and white space
LexicallyValid(s) == RefLex(s, 1).ok

ParenDepth(s, k) ==
    Cardinality({j \in 1..k : s[j] = "("}) - Cardinality({j \in 1..k : s[j] = ")"})

\* no ")" without an open "(", and no "(" left open
Balanced(s) ==
    /\ \A k \in 1..Len(s) : ParenDepth(s, k) >= 0
    /\ ParenDepth(s, Len(s)) = 0

RECURSIVE RefShunt(_, _, _, _)
\* the textbook shunting-yard over a balanced token list: numerals to the
\* output, an operator after popping what binds at least as tightly, ")"
\* popping down to its "(", the rest popped at the end
RefShunt(ts, k, ops, out) ==
    IF k > Len(ts)
    THEN IF ops = <<>> THEN out
         ELSE RefShunt(ts, k, Pop(ops), Append(out, Top(ops)))
    ELSE IF RefNumeral(ts[k]) THEN RefShunt(ts, k + 1, ops, Append(out, ts[k]))
    ELSE IF ts[k] = <<"(">> THEN RefShunt(ts, k + 1, Append(ops, ts[k]), out)
    ELSE IF ts[k] = <<")">>
    THEN IF Top(ops) = <<"(">> THEN RefShunt(ts, k + 1, Pop(ops), out)
         ELSE RefShunt(ts, k, Pop(ops), Append(out, Top(ops)))
    ELSE IF /\ ops # <<>>
            /\ Top(ops) # <<"(">>
            /\ (Top(ops) \in {<<"*">>, <<"/">>} \/ ts[k] \in {<<"+">>, <<"-">>})
    THEN RefShunt(ts, k, Pop(ops), Append(out, Top(ops)))
    ELSE RefShunt(ts, k + 1, Append(ops, ts[k]), out)

----------------------------------------------------------------------------
(* Properties.                                                             *)

T(c) == <<c>>

\* the characters that make up lexemes: everything but white space and symbols
LexemeChars == DecimalDigits \cup {".", "a", "sup2"}

\* digits with at most one "."
LooseNumeral(chunk) ==
    /\ \A k \in 1..Len(chunk) : chunk[k] \in DecimalDigits \cup {"."}
    /\ \E k \in 1..Len(chunk) : chunk[k] \in DecimalDigits
    /\ DotCount(chunk) <= 1

RECURSIVE HasInvalidLexeme(_, _)
\* from p on, s holds a run of lexeme characters that is no numeral
HasInvalidLexeme(s, p) ==
    IF p > Len(s) THEN FALSE
    ELSE IF s[p] \notin LexemeChars THEN HasInvalidLexeme(s, p + 1)
    ELSE LET e == RunEnd(s, p, LexemeChars)
         IN  ~LooseNumeral(SubSeq(s, p, e - 1)) \/ HasInvalidLexeme(s, e)

\* r is the rational a + b, a - b, a * b or a / b, in lowest terms
IsResult(op, a, b, r) ==
    /\ Len(r) = 2
    /\ r[2] > 0
    /\ Gcd(Abs(r[1]), r[2]) = 1
    /\ CASE op = <<"+">> -> r[1] * a[2] * b[2] = (a[1] * b[2] + b[1] * a[2]) * r[2]
         [] op = <<"-">> -> r[1] * a[2] * b[2] = (a[1] * b[2] - b[1] * a[2]) * r[2]
         [] op = <<"*">> -> r[1] * a[2] * b[2] = a[1] * b[1] * r[2]
         [] op = <<"/">> -> b[1] # 0 /\ r[1] * a[2] * b[1] = a[1] * b[2] * r[2]

\* C1 as stated: evaluate returns the value of every well-formed infix
\* expression under standard precedence and left-to-right grouping.
C1_ValueOfEveryWellFormed ==
    (pc = "done" /\ api = "evaluate" /\ WellFormed(expression))
        => (status = "returned" /\ retval = RefParse(expression).val)

\* C1 amended: evaluate returns the value (standard precedence, equal
\* precedence grouped left to right) of every well-formed infix expression
\* in which no divisor is zero; when a divisor is zero it raises
\* RPNSyntaxError("Division by zero") and returns nothing.
C1_ValueOfWellFormed ==
    (pc = "done" /\ api = "evaluate" /\ WellFormed(expression))
        => IF RefParse(expression).val # Undefined
           THEN status = "returned" /\ retval = RefParse(expression).val
           ELSE /\ status = "raised"
                /\ error = "RPNSyntaxError"
                /\ message = "Division by zero"
                /\ retval = NoValue

\* evaluate("0-2-2") has returned (0 - 2) - 2 = -4, not 0 - (2 - 2) = 0
C1_Witness ==
    /\ pc = "done"
    /\ api = "evaluate"
    /\ expression = <<"0", "-", "2", "-", "2">>
    /\ status = "returned"
    /\ retval = <<-4, 1>>

\* C2: for every well-formed infix expression infix_to_rpn returns the
\* postfix sequence of the textbook shunting-yard algorithm, which is the
\* post-order of the expression's parse tree.
C2_PostfixOfWellFormed ==
    (pc = "done" /\ api = "infix_to_rpn" /\ WellFormed(expression))
        => /\ status = "returned"
           /\ output = RefShunt(RefLex(expression, 1).toks, 1, <<>>, <<>>)
           /\ output = RefParse(expression).post

\* infix_to_rpn("2 + 3 * 4 - 5") has returned 2 3 4 * + 5 -
C2_Witness ==
    /\ pc = "done"
    /\ api = "infix_to_rpn"
    /\ expression = <<"2", " ", "+", " ", "3", " ", "*", " ", "4", " ", "-", " ", "5">>
    /\ status = "returned"
    /\ output = <<T("2"), T("3"), T("4"), T("*"), T("+"), T("5"), T("-")>>

\* C3: an input string holding a run of non-blank characters that is neither
\* a numeral nor a symbol makes evaluate and infix_to_rpn raise
\* InvalidTokenError before anything is converted; they return nothing for
\* it.  Stated for the inputs whose parentheses are balanced, for which no
\* other failure is claimed.
C3_InvalidTokenRaised ==
    (pc = "done" /\ api \in {"evaluate", "infix_to_rpn"}
                 /\ HasInvalidLexeme(expression, 1) /\ Balanced(expression))
        => (status = "raised" /\ error = "InvalidTokenError" /\ output = <<>>)

\* C4: an input string with unbalanced parentheses makes evaluate and
\* infix_to_rpn raise MismatchedParenthesesError, whatever else it holds;
\* _check_parentheses raises it, before any token is converted, and nothing
\* is returned.
C4_MismatchedRaised ==
    (pc = "done" /\ api \in {"evaluate", "infix_to_rpn"} /\ ~Balanced(expression))
        => /\ status = "raised"
           /\ error = "MismatchedParenthesesError"
           /\ retval = NoValue
           /\ ti = 0
           /\ output = <<>>

\* evaluate("(2/0") has raised MismatchedParenthesesError
C4_Witness ==
    /\ pc = "done"
    /\ api = "evaluate"
    /\ expression = <<"(", "2", "/", "0">>
    /\ error = "MismatchedParenthesesError"

\* C5: evaluate raises RPNSyntaxError for every lexically valid,
\* parenthesis-balanced input string that is no well-formed infix
\* expression, and never returns a number for it.
C5_SyntaxErrorRaised ==
    (pc = "done" /\ api = "evaluate" /\ LexicallyValid(expression)
                 /\ Balanced(expression) /\ ~WellFormed(expression))
        => (status = "raised" /\ error = "RPNSyntaxError")

\* the for loop of evaluate_rpn is at an operator token
AtOperator == pc = "eval" /\ ri \in 1..Len(rpn) /\ rpn[ri] \in OPERATORS

\* C6: when "/" is applied with a right operand that is zero, whatever the
\* left operand, the step raises RPNSyntaxError("Division by zero"): nothing
\* is pushed on the operand stack and nothing is returned.
C6_DivisionByZero ==
    [][(AtOperator /\ rpn[ri] = <<"/">> /\ Len(stack) >= 2 /\ Top(stack)[1] = 0)
        => /\ pc' = "done"
           /\ status' = "raised"
           /\ error' = "RPNSyntaxError"
           /\ message' = "Division by zero"
           /\ retval' = NoValue
           /\ stack' = SubSeq(stack, 1, Len(stack) - 2)]_vars

\* evaluate_rpn(["0", "0", "/"]) has raised at the "/"
C6_Witness ==
    /\ pc = "done"
    /\ api = "evaluate_rpn"
    /\ rpn = <<T("0"), T("0"), T("/")>>
    /\ ri = 3
    /\ error = "RPNSyntaxError"
    /\ message = "Division by zero"

\* C7: evaluate_rpn returns only after the loop has consumed every token and
\* with exactly one value on the operand stack, and returns that value; with
\* no value or more than one left it raises
\* RPNSyntaxError("Malformed expression").
C7_FinalStack ==
    (pc = "done" /\ api \in {"evaluate_rpn", "evaluate"})
        => /\ status = "returned"
                => (ri = Len(rpn) + 1 /\ Len(stack) = 1 /\ retval = stack[1])
           /\ (ri = Len(rpn) + 1 /\ Len(stack) = 1) => status = "returned"
           /\ (ri = Len(rpn) + 1 /\ Len(stack) # 1)
                => /\ status = "raised"
                   /\ error = "RPNSyntaxError"
                   /\ message = "Malformed expression"
                   /\ retval = NoValue

\* evaluate_rpn(["2", "2"]) has raised with two values left
C7_Witness ==
    /\ pc = "done"
    /\ api = "evaluate_rpn"
    /\ rpn = <<T("2"), T("2")>>
    /\ Len(stack) = 2
    /\ message = "Malformed expression"

\* C8: an operator token reached with fewer than two values on the operand
\* stack raises RPNSyntaxError("Not enough operands for operator") at that
\* token: the stack is left as it was, nothing is returned, and once a call
\* has ended no further token of it is processed.
C8_InsufficientOperands ==
    [][/\ (AtOperator /\ Len(stack) < 2)
            => /\ pc' = "done"
               /\ status' = "raised"
               /\ error' = "RPNSyntaxError"
               /\ message' = "Not enough operands for operator"
               /\ retval' = NoValue
               /\ stack' = stack
               /\ ri' = ri
       /\ pc = "done" => pc' = "idle"]_vars

\* evaluate_rpn(["2", "+", "2"]) has raised at the "+", the last token unread
C8_Witness ==
    /\ pc = "done"
    /\ api = "evaluate_rpn"
    /\ rpn = <<T("2"), T("+"), T("2")>>
    /\ ri = 2
    /\ Len(stack) = 1
    /\ message = "Not enough operands for operator"

\* the step replaces the top two values a (below) and b (top) by a op b
AppliesOperator ==
    /\ pc' = "eval"
    /\ ri' = ri + 1
    /\ Len(stack') = Len(stack) - 1
    /\ SubSeq(stack', 1, Len(stack) - 2) = SubSeq(stack, 1, Len(stack) - 2)
    /\ IsResult(rpn[ri], stack[Len(stack) - 1], stack[Len(stack)], Top(stack'))

\* C9 as stated: every operator token reached with at least two values on
\* the operand stack replaces the top two by a op b.
C9_EveryOperatorApplied ==
    [][(AtOperator /\ Len(stack) >= 2) => AppliesOperator]_vars

\* C9 amended: an operator token reached with at least two values on the
\* operand stack, other than "/" with a zero on top, replaces the top two
\* values by a op b, b the top value and a the one below it; the values
\* below are unchanged and the depth decreases by one.
C9_OperatorApplied ==
    [][(AtOperator /\ Len(stack) >= 2 /\ ~(rpn[ri] = <<"/">> /\ Top(stack)[1] = 0))
        => AppliesOperator]_vars

\* evaluate_rpn(["2", "0", "2", "-"]) has computed 0 - 2 above the untouched 2
C9_Witness ==
    /\ pc = "eval"
    /\ api = "evaluate_rpn"
    /\ rpn = <<T("2"), T("0"), T("2"), T("-")>>
    /\ ri = 5
    /\ stack = <<<<2, 1>>, <<-2, 1>>>>

\* C10: evaluate_rpn raises InvalidTokenError at the first token that is
\* neither a numeral (digits with at most one ".") nor an operator; it does
\* not skip the token or take it for a number.
C10_InvalidTokenRaised ==
    (pc = "done" /\ api = "evaluate_rpn" /\ ri \in 1..Len(rpn)
                 /\ ~LooseNumeral(rpn[ri]) /\ rpn[ri] \notin OPERATORS)
        => (status = "raised" /\ error = "InvalidTokenError")

\* C11: every call of infix_to_rpn, evaluate or evaluate_rpn ends by
\* returning or by raising one of InvalidTokenError,
\* MismatchedParenthesesError and RPNSyntaxError, the three subclasses of
\* RPNAPIError; no other exception leaves the calculator.
C11_OnlyPipelineFailures ==
    pc = "done"
        => \/ status = "returned" /\ error = "none"
           \/ /\ status = "raised"
              /\ error \in {"InvalidTokenError", "MismatchedParenthesesError",
                            "RPNSyntaxError"}

Count(seq, t) == Cardinality({k \in 1..Len(seq) : seq[k] = t})

Elements(seq) == {seq[k] : k \in 1..Len(seq)}

IsParenToken(t) == t \in {<<"(">>, <<")">>}

NumeralsOf(seq) == SelectSeq(seq, RefNumeral)

\* C14: a sequence returned by infix_to_rpn holds no parenthesis and holds
\* exactly the numeral and operator tokens of the tokenized input, each as
\* often as the input does and with its text unchanged (so its length is the
\* token count less the parentheses), the numerals in the input's order.
C14_OutputTokens ==
    (pc = "done" /\ api = "infix_to_rpn" /\ status = "returned")
        => /\ \A t \in Elements(output) : ~IsParenToken(t)
           /\ \A t \in Elements(tokens) \cup Elements(output) :
                  ~IsParenToken(t) => Count(output, t) = Count(tokens, t)
           /\ Len(output) = Len(tokens) - Count(tokens, <<"(">>) - Count(tokens, <<")">>)
           /\ NumeralsOf(output) = NumeralsOf(tokens)

\* infix_to_rpn("(1 + 2) * (3 + 4)") has returned 1 2 + 3 4 + *
C14_Witness ==
    /\ pc = "done"
    /\ api = "infix_to_rpn"
    /\ status = "returned"
    /\ tokens = <<T("("), T("1"), T("+"), T("2"), T(")"), T("*"),
                  T("("), T("3"), T("+"), T("4"), T(")")>>
    /\ output = <<T("1"), T("2"), T("+"), T("3"), T("4"), T("+"), T("*")>>

\* C15: once _check_parentheses has accepted the tokens the converter never
\* raises MismatchedParenthesesError: a ")" always finds a "(" on the
\* operator stack, the stack never holds a ")", no "(" is left on it when the
\* tokens are exhausted, and it is empty when infix_to_rpn returns.
C15_ConverterNeverMismatched ==
    /\ (pc = "done" /\ error = "MismatchedParenthesesError") => ti = 0
    /\ Count(operators, <<")">>) = 0
    /\ (pc = "convert" /\ ti <= Len(tokens) /\ tokens[ti] = <<")">>)
            => Count(operators, <<"(">>) > 0
    /\ (pc = "convert" /\ ti > Len(tokens)) => Count(operators, <<"(">>) = 0
    /\ (pc \in {"eval", "done"} /\ ti >= 1) => (ti = Len(tokens) + 1 /\ operators = <<>>)

\* infix_to_rpn("(2-0)") is at the ")" with "(" and "-" on the operator stack
C15_Witness ==
    /\ pc = "convert"
    /\ api = "infix_to_rpn"
    /\ expression = <<"(", "2", "-", "0", ")">>
    /\ ti = 5
    /\ operators = <<T("("), T("-")>>

\* steps a call can still take: it falls with every step of a running call
Rank ==
    CASE pc = "tokenize" -> 2 * Len(expression) + 6
      [] pc = "validate" -> 2 * Len(tokens) + 5
      [] pc = "check"    -> 2 * Len(tokens) + 4
      [] pc = "convert"  -> 2 * Len(tokens) + 4 - ti
      [] pc = "eval"     -> Len(rpn) + 2 - ri
      [] OTHER           -> 0

Running == pc \notin {"idle", "done"}

\* a running call has a step to take: _tokenize has no condition, the later
\* positions have a step whose conditions hold
CanStep ==
    \/ pc = "tokenize"
    \/ ENABLED (\/ ValidateStep
                \/ CheckStep
                \/ ConvertNumber
                \/ ConvertOperator
                \/ ConvertLeftParen
                \/ ConvertRightParen
                \/ ConvertFinish
                \/ EvalNumber
                \/ EvalOperator
                \/ EvalInvalid
                \/ EvalFinish)

C16_Bounded ==
    /\ pc = "convert" => ti \in 1..(Len(tokens) + 1)
    /\ pc = "eval" => ri \in 1..(Len(rpn) + 1)
    /\ opPops <= opPushes
    /\ opPushes <= Len(tokens)
    /\ Len(operators) = opPushes - opPops
    /\ stackOps <= 3 * Len(rpn)
    /\ Rank >= 0
    /\ Running => CanStep

C16_Step ==
    /\ Running => Rank' < Rank
    /\ (pc = "convert" /\ pc' = "convert") => ti' = ti + 1
    /\ (pc = "eval" /\ pc' = "eval") => ri' = ri + 1
    /\ Running => (opPops' - opPops) \in 0..Len(operators)

\* C16: infix_to_rpn and evaluate_rpn terminate on every finite input: a
\* running call can always take a step and every step lowers a rank that
\* starts from the input's length; each loop step moves to the next token,
\* every operator-stack pop takes a token pushed before and not yet popped,
\* so the pops never exceed the token count, and the operand-stack operations
\* never exceed three times the token count.
C16_Terminates == []C16_Bounded /\ [][C16_Step]_vars

\* evaluate("(1 + 2) * (3 + 4)") has returned after 5 pushes and 5 pops of
\* the operator stack and 13 operations of the operand stack
C16_Witness ==
    /\ pc = "done"
    /\ api = "evaluate"
    /\ status = "returned"
    /\ Len(tokens) = 11
    /\ opPushes = 5
    /\ opPops = 5
    /\ stackOps = 13

Remembered(e) == memo.api = "infix_to_rpn" /\ memo.expression = e

\* C12: a call of infix_to_rpn on a string the same calculator converted
\* before, whatever calls of infix_to_rpn, evaluate and evaluate_rpn were made
\* in between, ends as the earlier call did: it returns the same token
\* sequence or raises the same class of exception.
C12_SameOutcomeAgain ==
    (pc = "done" /\ api = "infix_to_rpn" /\ Remembered(expression))
        => /\ status = memo.status
           /\ error = memo.error
           /\ status = "returned" => output = memo.output

\* "(1 + 2) * (3 + 4)" is converted a second time, after evaluate_rpn ran on
\* the first result
C12_Witness ==
    /\ pc = "done"
    /\ api = "infix_to_rpn"
    /\ Remembered(expression)
    /\ memo.applied
    /\ status = "returned"
    /\ output = <<T("1"), T("2"), T("+"), T("3"), T("4"), T("+"), T("*")>>

\* C13: evaluate(expr) ends as evaluate_rpn(infix_to_rpn(expr)) does, with
\* the same number or the same class of exception, when infix_to_rpn accepts
\* expr, and raises the class infix_to_rpn raises when it rejects expr.
C13_RoundTrip ==
    (pc = "done" /\ api = "evaluate" /\ Remembered(expression))
        => IF memo.status = "raised"
           THEN status = "raised" /\ error = memo.error
           ELSE memo.applied
                    => /\ status = memo.rstatus
                       /\ error = memo.rerror
                       /\ retval = memo.retval

\* evaluate("10 / 2") has returned 5 after infix_to_rpn("10 / 2") and
\* evaluate_rpn on its result
C13_Witness ==
    /\ pc = "done"
    /\ api = "evaluate"
    /\ Remembered(expression)
    /\ expression = <<"1", "0", " ", "/", " ", "2">>
    /\ memo.applied
    /\ status = "returned"
    /\ retval = <<5, 1>>

====
